---- MODULE Spec2Model ----
(***************************************************************************)
(* Model of the spipe! macro (shitohana/spipe): the pipeline parser of     *)
(* src/pipe.rs, the expression generator of src/utils.rs and the driver    *)
(* MacroInput::run, over syn-like token trees and expression trees.        *)
(***************************************************************************)
EXTENDS Integers, Sequences, FiniteSets, TLC

VARIABLES
    input,          \* the macro's token stream (the source text)
    pc,             \* position in spipe(): "start", "parsed", "loop", "done"
    initial,        \* MacroInput.initial
    pipe_pairs,     \* MacroInput.pipe_pairs, the queue run() pops from
    res,            \* run(): the accumulated expression
    closure_count,  \* run(): the hygiene counter
    out,            \* what spipe() emits: Ok(expr) or Err(message)
    applied         \* history: one record per iteration of run()'s loop

vars == <<input, pc, initial, pipe_pairs, res, closure_count, out, applied>>

\* ---------------------------------------------------------------- bounds
MaxSteps == 2       \* steps per source text, every operation syntax
MaxDeep == 3        \* steps per source text, the longer pipelines
MaxArgs == 3        \* arguments of a generated call operation

\* ------------------------------------------------------- expression trees
Path(leading_colon, segments) ==
    [leading_colon |-> leading_colon, segments |-> segments]

IdentPath(ident) == Path(FALSE, <<ident>>)

ExprPath(path) == [tag |-> "Path", path |-> path]

ExprLit(lit) == [tag |-> "Lit", lit |-> lit]

ExprTuple(elems) == [tag |-> "Tuple", elems |-> elems]

ExprCall(func, args) == [tag |-> "Call", func |-> func, args |-> args]

ExprMethodCall(receiver, method, args) ==
    [tag |-> "MethodCall", receiver |-> receiver, method |-> method,
     args |-> args]

ExprClosure(inputs, body) ==
    [tag |-> "Closure", inputs |-> inputs, body |-> body]

ExprCast(expr, ty) == [tag |-> "Cast", expr |-> expr, ty |-> ty]

ExprTry(expr) == [tag |-> "Try", expr |-> expr]

ExprReference(mutability, expr) ==
    [tag |-> "Reference", mutability |-> mutability, expr |-> expr]

ExprBlock(stmts) == [tag |-> "Block", stmts |-> stmts]

StmtLocal(mutability, ident, init) ==
    [stmt |-> "Local", mutability |-> mutability, ident |-> ident,
     init |-> init]

StmtExpr(expr, semi) == [stmt |-> "Expr", expr |-> expr, semi |-> semi]

PatIdent(ident) == [pat |-> "Ident", ident |-> ident]

PatPath(path) == [pat |-> "Path", path |-> path]

TypePath(path) == [type |-> "Path", path |-> path]

\* Result<T>
Ok(val) == [ok |-> TRUE, val |-> val]

Err(err) == [ok |-> FALSE, err |-> err]

NoExpr == [tag |-> "None"]

NoResult == [ok |-> FALSE]

\* ------------------------------------------------------------ PipeOp
NoOp == [op |-> "NoOp"]

FnCall(call) == [op |-> "FnCall", call |-> call]

MethodCall(call) == [op |-> "MethodCall", call |-> call]

Closure(closure) == [op |-> "Closure", closure |-> closure]

TypeFrom(ty) == [op |-> "TypeFrom", ty_path |-> ty]

TypeTryFrom(ty) == [op |-> "TypeTryFrom", ty_path |-> ty]

TypeAs(ty) == [op |-> "TypeAs", ty |-> ty]

PipeType ==
    {"Basic", "AndThen", "Clone", "Map", "Try", "Unwrap", "Apply", "ApplyMut"}

PipeOpPair(pipe_type, operation) ==
    [pipe_type |-> pipe_type, operation |-> operation]

\* ------------------------------------------------------------ utils.rs
call_expr(call, args) == ExprCall(call, args)

call_method_expr(receiver, fun, args) == ExprMethodCall(receiver, fun, args)

path_to_expr(path) == ExprPath(path)

add_to_path(path, ident) ==
    Path(path.leading_colon, Append(path.segments, ident))

replace_empty_paren_closure(v) == v.tag = "Tuple" /\ v.elems = <<>>

\* calling the function pointer which: fn(&Expr) -> bool, held by name
call_which(which, v) ==
    CASE which = "replace_empty_paren_closure" -> replace_empty_paren_closure(v)

\* args.iter().position(which): the least matching index, 0 for None
position(args, which) ==
    IF \E i \in 1..Len(args) : call_which(which, args[i])
    THEN CHOOSE i \in 1..Len(args) :
            /\ call_which(which, args[i])
            /\ \A j \in 1..(i - 1) : ~call_which(which, args[j])
    ELSE 0

\* the last placeholder instead of the first
substitute_args_last(args, sub, which) ==
    IF \E i \in 1..Len(args) : call_which(which, args[i])
    THEN LET idx == CHOOSE i \in 1..Len(args) :
                        /\ call_which(which, args[i])
                        /\ \A j \in (i + 1)..Len(args) :
                              ~call_which(which, args[j])
         IN  [args EXCEPT ![idx] = sub]
    ELSE <<sub>> \o args

substitute_args(args, sub, which) ==
    LET idx == position(args, which)
    IN  IF idx /= 0
        THEN [args EXCEPT ![idx] = sub]
        ELSE <<sub>> \o args

\* Path::get_ident: a path is an ident when it has no leading colon and a
\* single segment
get_ident(path) ==
    IF ~path.leading_colon /\ Len(path.segments) = 1
    THEN Ok(path.segments[1])
    ELSE NoResult

\* the last segment of the path instead of an error
try_get_call_ident_last(expr) ==
    IF expr.func.tag = "Path"
    THEN Ok(expr.func.path.segments[Len(expr.func.path.segments)])
    ELSE Err("not a function")

try_get_call_ident(expr) ==
    IF expr.func.tag = "Path"
    THEN LET ident == get_ident(expr.func.path)
         IN  IF ident.ok THEN ident ELSE Err("Expected ident")
    ELSE Err("not a function")

apply_op(pipe, expr) ==
    CASE pipe.op = "NoOp" -> Ok(expr)
      [] pipe.op = "FnCall" ->
            Ok(ExprCall(pipe.call.func,
                        substitute_args(pipe.call.args, expr,
                                        "replace_empty_paren_closure")))
      [] pipe.op = "MethodCall" ->
            LET ident == try_get_call_ident(pipe.call)
            IN  IF ident.ok
                THEN Ok(call_method_expr(expr, ident.val, pipe.call.args))
                ELSE ident
      [] pipe.op = "Closure" -> Ok(call_expr(pipe.closure, <<expr>>))
      [] pipe.op = "TypeFrom" ->
            Ok(call_expr(path_to_expr(add_to_path(pipe.ty_path.path, "from")),
                         <<expr>>))
      [] pipe.op = "TypeTryFrom" ->
            Ok(call_expr(
                path_to_expr(add_to_path(pipe.ty_path.path, "try_from")),
                <<expr>>))
      [] pipe.op = "TypeAs" -> Ok(ExprCast(expr, pipe.ty))

\* format!("{}", n) for a usize
Digit(d) ==
    CASE d = 0 -> "0" [] d = 1 -> "1" [] d = 2 -> "2" [] d = 3 -> "3"
      [] d = 4 -> "4" [] d = 5 -> "5" [] d = 6 -> "6" [] d = 7 -> "7"
      [] d = 8 -> "8" [] d = 9 -> "9"

RECURSIVE Decimal(_)
Decimal(n) ==
    IF n < 10 THEN Digit(n) ELSE Decimal(n \div 10) \o Digit(n % 10)

var_name(count) == "__var_" \o Decimal(count)

\* the temporary is named after the counter as it was before the step
get_apply_block_early(op, expr, mutable, count) ==
    LET var_ident == var_name(count - 1)
        closure_var_expr == ExprPath(IdentPath(var_ident))
        expr_let == StmtLocal(mutable, var_ident, expr)
        var_reference == ExprReference(mutable, closure_var_expr)
        applied_op == apply_op(op, var_reference)
    IN  IF applied_op.ok
        THEN Ok(ExprBlock(<<expr_let,
                            StmtExpr(applied_op.val, TRUE),
                            StmtExpr(closure_var_expr, FALSE)>>))
        ELSE applied_op

\* the block ends with the operation's result instead of the temporary
get_apply_block_result(op, expr, mutable, count) ==
    LET var_ident == var_name(count)
        closure_var_expr == ExprPath(IdentPath(var_ident))
        expr_let == StmtLocal(mutable, var_ident, expr)
        var_reference == ExprReference(mutable, closure_var_expr)
        applied_op == apply_op(op, var_reference)
    IN  IF applied_op.ok
        THEN Ok(ExprBlock(<<expr_let, StmtExpr(applied_op.val, FALSE)>>))
        ELSE applied_op

\* the operation is applied to a reference to the expression itself, which
\* the let statement has already evaluated
get_apply_block_reeval(op, expr, mutable, count) ==
    LET var_ident == var_name(count)
        closure_var_expr == ExprPath(IdentPath(var_ident))
        expr_let == StmtLocal(mutable, var_ident, expr)
        var_reference == ExprReference(mutable, expr)
        applied_op == apply_op(op, var_reference)
    IN  IF applied_op.ok
        THEN Ok(ExprBlock(<<expr_let,
                            StmtExpr(applied_op.val, TRUE),
                            StmtExpr(closure_var_expr, FALSE)>>))
        ELSE applied_op

get_apply_block(op, expr, mutable, count) ==
    LET var_ident == var_name(count)
        closure_var_expr == ExprPath(IdentPath(var_ident))
        expr_let == StmtLocal(mutable, var_ident, expr)
        var_reference == ExprReference(mutable, closure_var_expr)
        applied_op == apply_op(op, var_reference)
    IN  IF applied_op.ok
        THEN Ok(ExprBlock(<<expr_let,
                            StmtExpr(applied_op.val, TRUE),
                            StmtExpr(closure_var_expr, FALSE)>>))
        ELSE applied_op

\* the operation is applied to the receiver, the closure only forwards
get_fn_closure_call_inline(pipe, call_on, method_name) ==
    LET closure_var == IdentPath("__map_var")
        closure_var_expr == ExprPath(closure_var)
        applied_op == apply_op(pipe, call_on)
    IN  IF applied_op.ok
        THEN Ok(call_method_expr(
                applied_op.val, method_name,
                <<ExprClosure(<<PatPath(closure_var)>>, closure_var_expr)>>))
        ELSE applied_op

get_fn_closure_call(pipe, call_on, method_name) ==
    LET closure_var == IdentPath("__map_var")
        closure_var_expr == ExprPath(closure_var)
        applied_op == apply_op(pipe, closure_var_expr)
    IN  IF applied_op.ok
        THEN Ok(call_method_expr(
                call_on, method_name,
                <<ExprClosure(<<PatPath(closure_var)>>, applied_op.val)>>))
        ELSE applied_op

\* Try hands the bare expression to the operation
apply_pipe_bare_try(pipe, expr, count) ==
    CASE pipe = "Basic" ->
            [closure_count |-> count, calls |-> "apply_op", expr |-> expr]
      [] pipe = "AndThen" ->
            [closure_count |-> count, calls |-> "get_fn_closure_call",
             expr |-> expr, method_name |-> "and_then"]
      [] pipe = "Clone" ->
            [closure_count |-> count, calls |-> "apply_op",
             expr |-> call_method_expr(expr, "clone", <<>>)]
      [] pipe = "Map" ->
            [closure_count |-> count, calls |-> "get_fn_closure_call",
             expr |-> expr, method_name |-> "map"]
      [] pipe = "Try" ->
            [closure_count |-> count, calls |-> "apply_op", expr |-> expr]
      [] pipe = "Unwrap" ->
            [closure_count |-> count, calls |-> "apply_op",
             expr |-> call_method_expr(expr, "unwrap", <<>>)]
      [] pipe = "Apply" ->
            [closure_count |-> count + 1, calls |-> "get_apply_block",
             expr |-> expr, mutable |-> FALSE]
      [] pipe = "ApplyMut" ->
            [closure_count |-> count + 1, calls |-> "get_apply_block",
             expr |-> expr, mutable |-> TRUE]

\* ApplyMut forgets to advance the counter
apply_pipe_stale(pipe, expr, count) ==
    CASE pipe = "Basic" ->
            [closure_count |-> count, calls |-> "apply_op", expr |-> expr]
      [] pipe = "AndThen" ->
            [closure_count |-> count, calls |-> "get_fn_closure_call",
             expr |-> expr, method_name |-> "and_then"]
      [] pipe = "Clone" ->
            [closure_count |-> count, calls |-> "apply_op",
             expr |-> call_method_expr(expr, "clone", <<>>)]
      [] pipe = "Map" ->
            [closure_count |-> count, calls |-> "get_fn_closure_call",
             expr |-> expr, method_name |-> "map"]
      [] pipe = "Try" ->
            [closure_count |-> count, calls |-> "apply_op",
             expr |-> ExprTry(expr)]
      [] pipe = "Unwrap" ->
            [closure_count |-> count, calls |-> "apply_op",
             expr |-> call_method_expr(expr, "unwrap", <<>>)]
      [] pipe = "Apply" ->
            [closure_count |-> count + 1, calls |-> "get_apply_block",
             expr |-> expr, mutable |-> FALSE]
      [] pipe = "ApplyMut" ->
            [closure_count |-> count, calls |-> "get_apply_block",
             expr |-> expr, mutable |-> TRUE]

\* apply_pipe returns a boxed closure and has already updated the counter:
\* the record holds the counter after the call and what the closure
\* captured (which function it calls, on which expression)
apply_pipe(pipe, expr, count) ==
    CASE pipe = "Basic" ->
            [closure_count |-> count, calls |-> "apply_op", expr |-> expr]
      [] pipe = "AndThen" ->
            [closure_count |-> count, calls |-> "get_fn_closure_call",
             expr |-> expr, method_name |-> "and_then"]
      [] pipe = "Clone" ->
            [closure_count |-> count, calls |-> "apply_op",
             expr |-> call_method_expr(expr, "clone", <<>>)]
      [] pipe = "Map" ->
            [closure_count |-> count, calls |-> "get_fn_closure_call",
             expr |-> expr, method_name |-> "map"]
      [] pipe = "Try" ->
            [closure_count |-> count, calls |-> "apply_op",
             expr |-> ExprTry(expr)]
      [] pipe = "Unwrap" ->
            [closure_count |-> count, calls |-> "apply_op",
             expr |-> call_method_expr(expr, "unwrap", <<>>)]
      [] pipe = "Apply" ->
            [closure_count |-> count + 1, calls |-> "get_apply_block",
             expr |-> expr, mutable |-> FALSE]
      [] pipe = "ApplyMut" ->
            [closure_count |-> count + 1, calls |-> "get_apply_block",
             expr |-> expr, mutable |-> TRUE]

\* calling the boxed closure apply_pipe returned
pipe_applied_fn(f, x) ==
    CASE f.calls = "apply_op" -> apply_op(x, f.expr)
      [] f.calls = "get_fn_closure_call" ->
            get_fn_closure_call(x, f.expr, f.method_name)
      [] f.calls = "get_apply_block" ->
            get_apply_block(x, f.expr, f.mutable, f.closure_count)

\* ------------------------------------------------------------ token trees
Punct(p) == [t |-> "Punct", p |-> p]

Ident(id) == [t |-> "Ident", id |-> id]

Literal(lit) == [t |-> "Literal", lit |-> lit]

Group(inner) == [t |-> "Group", inner |-> inner]

\* ParseStream::peek for a punctuation token, an identifier, a group
peek(stream, p) == stream /= <<>> /\ stream[1] = Punct(p)

is_keyword(id) == id \in {"as"}

peek_ident(stream) ==
    stream /= <<>> /\ stream[1].t = "Ident" /\ ~is_keyword(stream[1].id)

peek_keyword(stream, kw) == stream /= <<>> /\ stream[1] = Ident(kw)

peek_paren(stream) == stream /= <<>> /\ stream[1].t = "Group"

\* a parse result: the value and the stream left after it, or an error
Parsed(val, rest) == [ok |-> TRUE, val |-> val, rest |-> rest]

\* syn's Expr::parse on the expressions the model's sources contain: a
\* name, a literal, the empty tuple
parse_expr(stream) ==
    IF peek_ident(stream)
    THEN Parsed(ExprPath(IdentPath(stream[1].id)), Tail(stream))
    ELSE IF stream /= <<>> /\ stream[1].t = "Literal"
    THEN Parsed(ExprLit(stream[1].lit), Tail(stream))
    ELSE IF peek_paren(stream) /\ stream[1].inner = <<>>
    THEN Parsed(ExprTuple(<<>>), Tail(stream))
    ELSE Err("expected expression")

\* syn's Path::parse: [::] ident (:: ident)*
RECURSIVE parse_segments(_, _)
parse_segments(stream, segments) ==
    IF ~peek_ident(stream)
    THEN Err("expected identifier")
    ELSE LET segs == Append(segments, stream[1].id)
             rest == Tail(stream)
         IN  IF peek(rest, "::")
             THEN parse_segments(Tail(rest), segs)
             ELSE Parsed(segs, rest)

path_of(leading_colon, segs) ==
    IF segs.ok
    THEN Parsed(Path(leading_colon, segs.val), segs.rest)
    ELSE segs

parse_path(stream) ==
    path_of(peek(stream, "::"),
            parse_segments(IF peek(stream, "::") THEN Tail(stream) ELSE stream,
                           <<>>))

\* Punctuated::<Expr, Token![,]>::parse_terminated
RECURSIVE parse_terminated(_, _)
parse_terminated(stream, acc) ==
    IF stream = <<>>
    THEN Ok(acc)
    ELSE LET e == parse_expr(stream)
         IN  IF ~e.ok THEN e
             ELSE IF e.rest = <<>> THEN Ok(Append(acc, e.val))
             ELSE IF peek(e.rest, ",")
             THEN parse_terminated(Tail(e.rest), Append(acc, e.val))
             ELSE Err("expected ,")

\* parse_reduced_fn, after the argument list: the ExprCall
reduced_fn_call(path, args, rest) ==
    IF args.ok
    THEN Parsed(ExprCall(ExprPath(path), args.val), rest)
    ELSE args

\* parse_reduced_fn, after the path: the argument list if a group follows
reduced_fn_args(path) ==
    IF ~path.ok THEN path
    ELSE IF peek_paren(path.rest)
    THEN reduced_fn_call(path.val,
                         parse_terminated(path.rest[1].inner, <<>>),
                         Tail(path.rest))
    ELSE Parsed(ExprCall(ExprPath(path.val), <<>>), path.rest)

parse_reduced_fn(stream) == reduced_fn_args(parse_path(stream))

\* syn's ExprClosure::parse on the closures the model's sources contain:
\* | ident | expr
parse_closure(stream) ==
    IF peek(stream, "|") /\ peek_ident(Tail(stream))
       /\ peek(Tail(Tail(stream)), "|")
    THEN LET body == parse_expr(Tail(Tail(Tail(stream))))
         IN  IF body.ok
             THEN Parsed(ExprClosure(<<PatIdent(stream[2].id)>>, body.val),
                         body.rest)
             ELSE body
    ELSE Err("expected closure")

\* (as Type): tokens left in the group are reported by syn as unexpected
cast_as(ty) ==
    IF ~ty.ok THEN ty
    ELSE IF ty.rest /= <<>> THEN Err("unexpected token")
    ELSE Ok(TypeAs(TypePath(ty.val)))

\* (Type), (Type?)
cast_from(ty) ==
    IF ~ty.ok THEN ty
    ELSE IF peek(ty.rest, "?")
    THEN IF Tail(ty.rest) /= <<>> THEN Err("unexpected token")
         ELSE Ok(TypeTryFrom(ExprPath(ty.val)))
    ELSE IF ty.rest /= <<>> THEN Err("unexpected token")
    ELSE Ok(TypeFrom(ExprPath(ty.val)))

\* the parenthesized conversions
parse_cast(inside) ==
    IF peek_keyword(inside, "as")
    THEN cast_as(parse_path(Tail(inside)))
    ELSE IF peek_ident(inside)
    THEN cast_from(parse_path(inside))
    ELSE Err("expected one of: as, identifier")

\* Ok(Self::MethodCall(..?)), Ok(Self::FnCall(..)), Ok(Self::Closure(..)) and
\* the conversion taken out of its group
method_call_op(call) ==
    IF call.ok THEN Parsed(MethodCall(call.val), call.rest) ELSE call

fn_call_op(call) ==
    IF call.ok THEN Parsed(FnCall(call.val), call.rest) ELSE call

closure_op(closure) ==
    IF closure.ok THEN Parsed(Closure(closure.val), closure.rest) ELSE closure

cast_op(cast, rest) == IF cast.ok THEN Parsed(cast.val, rest) ELSE cast

\* impl Parse for PipeOp
PipeOp_parse(stream) ==
    IF peek(stream, ".") /\ peek(Tail(stream), ".")
       /\ peek(Tail(Tail(stream)), ".")
    THEN Parsed(NoOp, Tail(Tail(Tail(stream))))
    ELSE IF peek(stream, ".")
    THEN method_call_op(parse_reduced_fn(Tail(stream)))
    ELSE IF peek_paren(stream)
    THEN cast_op(parse_cast(stream[1].inner), Tail(stream))
    ELSE IF peek_ident(stream)
    THEN fn_call_op(parse_reduced_fn(stream))
    ELSE IF peek(stream, "|")
    THEN closure_op(parse_closure(stream))
    ELSE Err("expected one of: ., parentheses, identifier, |")

\* pipe_const!
pipe_const(marker) ==
    CASE marker = "&" -> "AndThen"
      [] marker = "+" -> "Clone"
      [] marker = "@" -> "Map"
      [] marker = "?" -> "Try"
      [] marker = "*" -> "Unwrap"
      [] marker = "#" -> "Apply"
      [] marker = "$" -> "ApplyMut"

Markers == {"&", "+", "@", "?", "*", "#", "$"}

\* PipeOpPair::parse, the marker: its type, or Basic and nothing consumed
peek_marker(stream) == \E m \in Markers : peek(stream, m)

parse_marker(stream) ==
    IF peek_marker(stream)
    THEN Parsed(pipe_const(stream[1].p), Tail(stream))
    ELSE Parsed("Basic", stream)

\* PipeOpPair::parse, the end: Ok(PipeOpPair { pipe_type, operation })
pair_of(ty, operation) ==
    IF operation.ok
    THEN Parsed(PipeOpPair(ty, operation.val), operation.rest)
    ELSE operation

\* impl Parse for PipeOpPair
PipeOpPair_parse(stream) ==
    pair_of(parse_marker(stream).val, PipeOp_parse(parse_marker(stream).rest))

RECURSIVE parse_separated_nonempty(_, _), separated_next(_, _)
RECURSIVE parse_separated_trailing(_, _), separated_trailing_next(_, _)

\* a trailing separator is allowed, as by parse_terminated
separated_trailing_next(pair, acc) ==
    IF ~pair.ok THEN pair
    ELSE IF peek(pair.rest, "=>")
    THEN parse_separated_trailing(Tail(pair.rest), Append(acc, pair.val))
    ELSE Parsed(Append(acc, pair.val), pair.rest)

parse_separated_trailing(stream, acc) ==
    IF stream = <<>>
    THEN Parsed(acc, stream)
    ELSE separated_trailing_next(PipeOpPair_parse(stream), acc)

\* parse_separated_nonempty, after a value: the next one if a separator
\* follows
separated_next(pair, acc) ==
    IF ~pair.ok THEN pair
    ELSE IF peek(pair.rest, "=>")
    THEN parse_separated_nonempty(Tail(pair.rest), Append(acc, pair.val))
    ELSE Parsed(Append(acc, pair.val), pair.rest)

\* Punctuated::<PipeOpPair, Token![=>]>::parse_separated_nonempty
parse_separated_nonempty(stream, acc) ==
    separated_next(PipeOpPair_parse(stream), acc)

\* MacroInput::parse, the end: Ok(Self { initial, pipe_pairs })
macro_input_of(first, parsed) ==
    IF parsed.ok
    THEN Parsed([initial |-> first, pipe_pairs |-> parsed.val], parsed.rest)
    ELSE parsed

\* the separator and a first step are demanded
macro_input_steps_nonempty(first) ==
    IF ~first.ok THEN first
    ELSE IF peek(first.rest, "=>")
    THEN macro_input_of(first.val,
                        parse_separated_nonempty(Tail(first.rest), <<>>))
    ELSE Err("expected =>")

\* MacroInput::parse, after the initial expression
macro_input_steps(first) ==
    IF ~first.ok THEN first
    ELSE IF peek(first.rest, "=>")
    THEN macro_input_of(first.val,
                        parse_separated_nonempty(Tail(first.rest), <<>>))
    ELSE Parsed([initial |-> first.val, pipe_pairs |-> <<>>], first.rest)

\* a text without a separator is refused
MacroInput_parse_nonempty(stream) ==
    macro_input_steps_nonempty(parse_expr(stream))

\* impl Parse for MacroInput
MacroInput_parse(stream) == macro_input_steps(parse_expr(stream))

\* parse_macro_input!: the whole stream must have been used
all_consumed(parsed) ==
    IF ~parsed.ok THEN parsed
    ELSE IF parsed.rest /= <<>> THEN Err("unexpected token")
    ELSE Ok(parsed.val)

\* parse_macro_input!(input as MacroInput)
parse_macro_input(stream) == all_consumed(MacroInput_parse(stream))

\* ------------------------------------------------------------ the inputs
\* the initial expressions of the generated source texts
InitialSources == {<<Ident("x")>>, <<Group(<<>>)>>}

\* operations written under every step marker: .m, .a::b()
CoreOpSources ==
    {<<Punct("."), Ident("m")>>,
     <<Punct("."), Ident("a"), Punct("::"), Ident("b"), Group(<<>>)>>}

\* operations written under the plain separator only: ..., |v| 999,
\* f(a, (), b), (T), (T?), (as T)
BasicOpSources ==
    {<<Punct("."), Punct("."), Punct(".")>>,
     <<Punct("|"), Ident("v"), Punct("|"), Literal("999")>>,
     <<Ident("f"),
       Group(<<Ident("a"), Punct(","), Group(<<>>), Punct(","), Ident("b")>>)>>,
     <<Group(<<Ident("T")>>)>>,
     <<Group(<<Ident("T"), Punct("?")>>)>>,
     <<Group(<<Ident("as"), Ident("T")>>)>>}

MarkerSources == {<<>>} \cup {<<Punct(m)>> : m \in Markers}

StepSources ==
    {m \o o : m \in MarkerSources, o \in CoreOpSources} \cup BasicOpSources

\* what may follow the last step: nothing, a separator with no operation, a
\* separator and a marker with no operation, a stray token, a separator with
\* no operation before a further step
TailSources ==
    {<<>>, <<Punct("=>")>>, <<Punct("=>"), Punct("#")>>, <<Punct(",")>>,
     <<Punct("=>"), Punct("=>"), Punct("."), Ident("m")>>}

\* the source text: the initial expression, a separator before every step,
\* the tail
RECURSIVE Source(_, _, _)
Source(first, steps, tail) ==
    IF steps = <<>>
    THEN first \o tail
    ELSE Source(first \o <<Punct("=>")>> \o Head(steps), Tail(steps), tail)

\* ---------------------------------------------------------- the program
Init ==
    /\ \E first \in InitialSources, n \in 0..MaxSteps, tail \in TailSources :
          \E steps \in [1..n -> StepSources] :
             input = Source(first, steps, tail)
    /\ pc = "start"
    /\ initial = NoExpr
    /\ pipe_pairs = <<>>
    /\ res = NoExpr
    /\ closure_count = 0
    /\ out = NoResult
    /\ applied = <<>>

\* spipe(): parse_macro_input!(input as MacroInput); a parse error is what
\* the macro emits
Parse ==
    /\ pc = "start"
    /\ LET parsed == parse_macro_input(input)
       IN  IF parsed.ok
           THEN /\ initial' = parsed.val.initial
                /\ pipe_pairs' = parsed.val.pipe_pairs
                /\ pc' = "parsed"
                /\ out' = out
           ELSE /\ out' = Err(parsed.err)
                /\ pc' = "done"
                /\ UNCHANGED <<initial, pipe_pairs>>
    /\ UNCHANGED <<input, res, closure_count, applied>>

\* MacroInput::run, up to the loop
RunBegin ==
    /\ pc = "parsed"
    /\ res' = initial
    /\ closure_count' = 0
    /\ pc' = "loop"
    /\ UNCHANGED <<input, initial, pipe_pairs, out, applied>>

\* a failed step is skipped and the loop goes on
RunStep_skip_failed ==
    /\ pc = "loop"
    /\ pipe_pairs /= <<>>
    /\ LET op == Head(pipe_pairs)
           f == apply_pipe(op.pipe_type, res, closure_count)
           r == pipe_applied_fn(f, op.operation)
       IN  /\ pipe_pairs' = Tail(pipe_pairs)
           /\ closure_count' = f.closure_count
           /\ applied' = Append(applied,
                                [pipe_type |-> op.pipe_type,
                                 operation |-> op.operation,
                                 acc |-> res,
                                 count |-> closure_count,
                                 result |-> r])
           /\ res' = (IF r.ok THEN r.val ELSE res)
           /\ UNCHANGED <<pc, out>>
    /\ UNCHANGED <<input, initial>>

\* MacroInput::run, one iteration of the loop: pop the front pair, let
\* apply_pipe build the closure, call it on the operation; an error returns
\* from run() and is what the macro emits
RunStep ==
    /\ pc = "loop"
    /\ pipe_pairs /= <<>>
    /\ LET op == Head(pipe_pairs)
           f == apply_pipe(op.pipe_type, res, closure_count)
           r == pipe_applied_fn(f, op.operation)
       IN  /\ pipe_pairs' = Tail(pipe_pairs)
           /\ closure_count' = f.closure_count
           /\ applied' = Append(applied,
                                [pipe_type |-> op.pipe_type,
                                 operation |-> op.operation,
                                 acc |-> res,
                                 count |-> closure_count,
                                 result |-> r])
           /\ IF r.ok
              THEN /\ res' = r.val
                   /\ UNCHANGED <<pc, out>>
              ELSE /\ res' = NoExpr
                   /\ out' = Err(r.err)
                   /\ pc' = "done"
    /\ UNCHANGED <<input, initial>>

\* MacroInput::run, after the loop: Ok(res), which the macro emits
RunReturn ==
    /\ pc = "loop"
    /\ pipe_pairs = <<>>
    /\ out' = Ok(res)
    /\ pc' = "done"
    /\ UNCHANGED <<input, initial, pipe_pairs, res, closure_count, applied>>

Next == Parse \/ RunBegin \/ RunStep \/ RunReturn

Spec == Init /\ [][Next]_vars

\* ------------------------------------------- one step, every operation
\* the arguments a call operation is written with
ArgExprs ==
    {ExprPath(IdentPath("a")), ExprPath(IdentPath("b")), ExprTuple(<<>>)}

ArgLists == UNION {[1..n -> ArgExprs] : n \in 0..MaxArgs}

\* the call targets: m, clone, a::b, ::m
TargetPaths ==
    {IdentPath("m"), IdentPath("clone"), Path(FALSE, <<"a", "b">>),
     Path(TRUE, <<"m">>)}

StepOps ==
    {NoOp,
     Closure(ExprClosure(<<PatIdent("v")>>, ExprLit("999"))),
     TypeFrom(ExprPath(IdentPath("T"))),
     TypeTryFrom(ExprPath(IdentPath("T"))),
     TypeAs(TypePath(IdentPath("T")))}
    \cup {FnCall(ExprCall(ExprPath(IdentPath("f")), args)) : args \in ArgLists}
    \cup {MethodCall(ExprCall(ExprPath(p), args)) :
            p \in TargetPaths, args \in {<<>>, <<ExprPath(IdentPath("a"))>>}}

\* the loop's state when the step is reached: the accumulated expression
\* and the counter, after no step, after x => sq, after x =># ...
LoopStates ==
    {[res |-> ExprPath(IdentPath("x")), closure_count |-> 0],
     [res |-> ExprLit("4"), closure_count |-> 0],
     [res |-> ExprTuple(<<>>), closure_count |-> 0],
     [res |-> ExprCall(ExprPath(IdentPath("sq")), <<ExprPath(IdentPath("x"))>>),
      closure_count |-> 0],
     [res |-> get_apply_block(NoOp, ExprPath(IdentPath("x")), FALSE, 1).val,
      closure_count |-> 1]}

\* run()'s loop with one pair left in the queue
InitStep ==
    /\ input = <<>>
    /\ pc = "loop"
    /\ initial = NoExpr
    /\ \E ty \in PipeType, op \in StepOps :
          pipe_pairs = <<PipeOpPair(ty, op)>>
    /\ \E st \in LoopStates :
          /\ res = st.res
          /\ closure_count = st.closure_count
    /\ out = NoResult
    /\ applied = <<>>

NextStep == RunStep \/ RunReturn

SpecStep == InitStep /\ [][NextStep]_vars

\* ------------------------------------------------- the longer pipelines
\* |v| 999 under every marker; .a::b() under none, &, # and $
DeepStepSources ==
    {m \o <<Punct("|"), Ident("v"), Punct("|"), Literal("999")>> :
        m \in MarkerSources}
    \cup {m \o <<Punct("."), Ident("a"), Punct("::"), Ident("b"), Group(<<>>)>> :
            m \in {<<>>, <<Punct("&")>>, <<Punct("#")>>, <<Punct("$")>>}}

InitDeep ==
    /\ \E n \in 0..MaxDeep :
          \E steps \in [1..n -> DeepStepSources] :
             input = Source(<<Literal("4")>>, steps, <<>>)
    /\ pc = "start"
    /\ initial = NoExpr
    /\ pipe_pairs = <<>>
    /\ res = NoExpr
    /\ closure_count = 0
    /\ out = NoResult
    /\ applied = <<>>

SpecDeep == InitDeep /\ [][Next]_vars

\* ================================================================ claims
ApplyKinds == {"Apply", "ApplyMut"}

IsUnit(e) == e = ExprTuple(<<>>)

\* C1: when an Apply or ApplyMut step succeeds, its output is a block of
\* three statements: a let binding the accumulated expression to a
\* temporary, the operation applied to a reference to the temporary with
\* its value discarded by a semicolon, and the temporary itself as the
\* block's value; that block, not the operation's result, is what the next
\* step receives.
C1_ApplyBlockYieldsTemporary ==
    \A i \in DOMAIN applied :
        LET a == applied[i]
        IN  (a.pipe_type \in ApplyKinds /\ a.result.ok) =>
            LET b == a.result.val
                tmp == ExprPath(IdentPath(b.stmts[1].ident))
                ref == ExprReference(a.pipe_type = "ApplyMut", tmp)
            IN  /\ b.tag = "Block"
                /\ Len(b.stmts) = 3
                /\ b.stmts[1].stmt = "Local"
                /\ b.stmts[1].init = a.acc
                /\ b.stmts[1].mutability = (a.pipe_type = "ApplyMut")
                /\ b.stmts[2] = StmtExpr(apply_op(a.operation, ref).val, TRUE)
                /\ b.stmts[3] = StmtExpr(tmp, FALSE)
                /\ (i = Len(applied) /\ pc = "loop" => res = b)
                /\ (i = Len(applied) /\ pc = "done" => out = Ok(b))

\* 4 =># |v| 999 has been compiled: the block's value is the temporary
C1_Witness ==
    /\ pc = "done"
    /\ Len(applied) = 1
    /\ applied[1].pipe_type = "Apply"
    /\ applied[1].acc = ExprLit("4")
    /\ applied[1].operation.op = "Closure"
    /\ out.ok
    /\ out.val.stmts[3].expr = ExprPath(IdentPath("__var_1"))

\* C2: a Call operation applied to an input expression: when the argument
\* list has an empty-tuple placeholder, the leftmost one is replaced by the
\* input and every other argument keeps its position (same count);
\* otherwise the input becomes the new first argument and the original
\* arguments follow in order (count + 1).
C2_FirstPlaceholderElseFront ==
    \A i \in DOMAIN applied :
        LET a == applied[i]
        IN  (a.pipe_type = "Basic" /\ a.operation.op = "FnCall") =>
            LET args == a.operation.call.args
                holes == {k \in DOMAIN args : IsUnit(args[k])}
                new == a.result.val.args
            IN  /\ a.result.ok
                /\ a.result.val.tag = "Call"
                /\ a.result.val.func = a.operation.call.func
                /\ IF holes /= {}
                   THEN LET first == CHOOSE k \in holes :
                                        \A j \in holes : k <= j
                        IN  /\ Len(new) = Len(args)
                            /\ new[first] = a.acc
                            /\ \A k \in DOMAIN args \ {first} :
                                  new[k] = args[k]
                   ELSE /\ Len(new) = Len(args) + 1
                        /\ new[1] = a.acc
                        /\ \A k \in DOMAIN args : new[k + 1] = args[k]

\* x => f(a, (), ()) has been compiled to f(a, x, ())
C2_Witness ==
    /\ pc = "done"
    /\ Len(applied) = 1
    /\ applied[1].pipe_type = "Basic"
    /\ applied[1].operation.op = "FnCall"
    /\ applied[1].acc = ExprPath(IdentPath("x"))
    /\ applied[1].operation.call.args =
         <<ExprPath(IdentPath("a")), ExprTuple(<<>>), ExprTuple(<<>>)>>
    /\ out = Ok(ExprCall(ExprPath(IdentPath("f")),
                         <<ExprPath(IdentPath("a")), ExprPath(IdentPath("x")),
                           ExprTuple(<<>>)>>))

\* the names bound by let statements anywhere in an expression, in order
RECURSIVE Bindings(_), BindingsOfAll(_), BindingsOfStmts(_)
Bindings(e) ==
    CASE e.tag \in {"Path", "Lit", "None"} -> <<>>
      [] e.tag = "Tuple" -> BindingsOfAll(e.elems)
      [] e.tag = "Call" -> Bindings(e.func) \o BindingsOfAll(e.args)
      [] e.tag = "MethodCall" -> Bindings(e.receiver) \o BindingsOfAll(e.args)
      [] e.tag = "Closure" -> Bindings(e.body)
      [] e.tag \in {"Cast", "Try", "Reference"} -> Bindings(e.expr)
      [] e.tag = "Block" -> BindingsOfStmts(e.stmts)

BindingsOfAll(es) ==
    IF es = <<>> THEN <<>> ELSE Bindings(Head(es)) \o BindingsOfAll(Tail(es))

BindingsOfStmts(stmts) ==
    IF stmts = <<>>
    THEN <<>>
    ELSE (IF Head(stmts).stmt = "Local"
          THEN <<Head(stmts).ident>> \o Bindings(Head(stmts).init)
          ELSE Bindings(Head(stmts).expr))
         \o BindingsOfStmts(Tail(stmts))

ApplySteps == {i \in DOMAIN applied : applied[i].pipe_type \in ApplyKinds}

\* C3: the temporaries bound by the Apply and ApplyMut steps of one
\* pipeline are pairwise distinct: the accumulated expression, and the
\* expression the macro emits, bind one name per successful apply-step
\* and no name twice.
C3_TemporaryNamesDistinct ==
    LET e == IF pc = "done" /\ out.ok THEN out.val ELSE res
        names == Bindings(e)
    IN  /\ \A i, j \in DOMAIN names : i /= j => names[i] /= names[j]
        /\ (e /= NoExpr =>
              Len(names) = Cardinality({i \in ApplySteps : applied[i].result.ok}))
        /\ \A i, j \in ApplySteps :
              (i < j /\ applied[j].result.ok) =>
                 applied[i].result.val.stmts[1].ident
                    /= applied[j].result.val.stmts[1].ident

\* 4 =># |v| 999 =>& |v| 999 =>$ |v| 999 has been compiled
C3_Witness ==
    /\ pc = "done"
    /\ out.ok
    /\ Len(applied) = 3
    /\ applied[1].pipe_type = "Apply"
    /\ applied[2].pipe_type = "AndThen"
    /\ applied[3].pipe_type = "ApplyMut"
    /\ Bindings(out.val) = <<"__var_2", "__var_1">>

\* C4: when an AndThen or Map step succeeds, whatever its operation, its
\* output is a call of the method and_then (AndThen) or map (Map) on the
\* accumulated expression, with one argument: a closure of one parameter
\* whose body is the operation applied to that parameter; it is never the
\* operation applied to the accumulated expression itself.
C4_CombinatorWrapsClosure ==
    \A i \in DOMAIN applied :
        LET a == applied[i]
        IN  (a.pipe_type \in {"AndThen", "Map"} /\ a.result.ok) =>
            LET o == a.result.val
            IN  /\ o.tag = "MethodCall"
                /\ o.receiver = a.acc
                /\ o.method = (IF a.pipe_type = "AndThen" THEN "and_then"
                               ELSE "map")
                /\ Len(o.args) = 1
                /\ o.args[1].tag = "Closure"
                /\ Len(o.args[1].inputs) = 1
                /\ o.args[1].inputs[1].pat = "Path"
                /\ o.args[1].body =
                     apply_op(a.operation,
                              ExprPath(o.args[1].inputs[1].path)).val
                /\ o /= apply_op(a.operation, a.acc).val

\* x =>@ ... has been compiled to x.map(|p| p)
C4_Witness ==
    /\ pc = "done"
    /\ Len(applied) = 1
    /\ applied[1].pipe_type = "Map"
    /\ applied[1].operation = NoOp
    /\ applied[1].acc = ExprPath(IdentPath("x"))
    /\ out.ok
    /\ out.val.method = "map"
    /\ out.val.args[1].body = ExprPath(out.val.args[1].inputs[1].path)

\* the wrapper of a Try, Unwrap or Clone step
Wrapped(pipe_type, e) ==
    CASE pipe_type = "Try" -> ExprTry(e)
      [] pipe_type = "Unwrap" -> ExprMethodCall(e, "unwrap", <<>>)
      [] pipe_type = "Clone" -> ExprMethodCall(e, "clone", <<>>)

\* the operation builds the very node the wrapper builds: ... builds
\* nothing, .unwrap() under Unwrap and .clone() under Clone repeat the
\* wrapper, and the two orders give one expression
SameAsWrapper(pipe_type, operation) ==
    \/ operation = NoOp
    \/ /\ pipe_type \in {"Unwrap", "Clone"}
       /\ operation.op = "MethodCall"
       /\ operation.call.args = <<>>
       /\ operation.call.func
            = ExprPath(IdentPath(IF pipe_type = "Unwrap" THEN "unwrap"
                                 ELSE "clone"))

\* C5: when a Try, Unwrap or Clone step succeeds, its output is the
\* operation applied to the wrapped accumulated expression (acc?,
\* acc.unwrap(), acc.clone()); unless the operation builds the wrapper's
\* own node, it is not the wrapper around the operation applied to the
\* accumulated expression.
C5_WrapperBeforeOperation ==
    \A i \in DOMAIN applied :
        LET a == applied[i]
        IN  (a.pipe_type \in {"Try", "Unwrap", "Clone"} /\ a.result.ok) =>
            /\ a.result.val
                 = apply_op(a.operation, Wrapped(a.pipe_type, a.acc)).val
            /\ (~SameAsWrapper(a.pipe_type, a.operation) =>
                  a.result.val
                    /= Wrapped(a.pipe_type, apply_op(a.operation, a.acc).val))

\* x =>? f has been compiled to f(x?)
C5_Witness ==
    /\ pc = "done"
    /\ Len(applied) = 1
    /\ applied[1].pipe_type = "Try"
    /\ applied[1].operation.op = "FnCall"
    /\ applied[1].operation.call.args = <<>>
    /\ out = Ok(ExprCall(ExprPath(IdentPath("f")),
                         <<ExprTry(ExprPath(IdentPath("x")))>>))

\* C6: a source text that is the initial expression alone is accepted and
\* compiles to that expression; whenever the macro emits an expression
\* without having taken a step, it is the parsed initial expression.
C6_ZeroStepsIdentity ==
    /\ (pc = "done" /\ Len(input) = 1) => out = Ok(parse_expr(input).val)
    /\ (pc = "parsed" /\ Len(input) = 1) => pipe_pairs = <<>>
    /\ (pc = "done" /\ out.ok /\ applied = <<>>) =>
          /\ out.val = initial
          /\ initial = parse_expr(input).val

\* the source () has been compiled to ()
C6_Witness ==
    /\ pc = "done"
    /\ input = <<Group(<<>>)>>
    /\ applied = <<>>
    /\ out = Ok(ExprTuple(<<>>))

\* C7: the driver is a left fold with early exit: the steps taken are a
\* prefix of the parsed pipeline, in order; each receives the output of
\* the one before it (the first, the initial expression); only the last
\* one taken can have failed; after a failure the macro emits that error
\* and the remaining steps stay untaken; otherwise it emits the output of
\* the last step once the queue is empty.
C7_LeftFoldEarlyExit ==
    LET n == Len(applied)
        taken == [i \in DOMAIN applied |->
                    PipeOpPair(applied[i].pipe_type, applied[i].operation)]
        last == IF n = 0 THEN initial ELSE applied[n].result.val
        parsed == parse_macro_input(input)
    IN  (pc \in {"loop", "done"} /\ parsed.ok) =>
        /\ taken \o pipe_pairs = parsed.val.pipe_pairs
        /\ \A i \in DOMAIN applied :
              /\ applied[i].acc = (IF i = 1 THEN initial
                                   ELSE applied[i - 1].result.val)
              /\ (i < n => applied[i].result.ok)
        /\ (pc = "loop" =>
              /\ (n > 0 => applied[n].result.ok)
              /\ res = last
              /\ out = NoResult)
        /\ (pc = "done" =>
              IF n > 0 /\ ~applied[n].result.ok
              THEN out = Err(applied[n].result.err)
              ELSE pipe_pairs = <<>> /\ out = Ok(last))

\* the second of three steps has failed: the third is still in the queue
C7_Witness ==
    /\ pc = "done"
    /\ Len(applied) = 2
    /\ applied[1].result.ok
    /\ ~applied[2].result.ok
    /\ Len(pipe_pairs) = 1
    /\ out = Err("Expected ident")

\* C8: the hygiene counter is 0 before the first step, grows by one with
\* every Apply or ApplyMut step taken, whether the step succeeds or fails,
\* and stays as it is through a step of another kind: it always equals the
\* number of apply-steps taken; a successful apply-step names its
\* temporary after the counter as already advanced.
C8_CounterCountsApplySteps ==
    /\ closure_count = Cardinality(ApplySteps)
    /\ \A i \in DOMAIN applied :
          applied[i].count = Cardinality({j \in ApplySteps : j < i})
    /\ \A i \in ApplySteps :
          applied[i].result.ok =>
             applied[i].result.val.stmts[1].ident
                = "__var_" \o ToString(applied[i].count + 1)

\* 4 =># |v| 999 =>$ .a::b(): the second apply-step failed, the counter is 2
C8_Witness ==
    /\ pc = "done"
    /\ Len(applied) = 2
    /\ applied[1].pipe_type = "Apply"
    /\ applied[1].result.ok
    /\ applied[2].pipe_type = "ApplyMut"
    /\ ~applied[2].result.ok
    /\ closure_count = 2

\* the call target is one plain name
PlainTarget(call) ==
    /\ call.func.tag = "Path"
    /\ ~call.func.path.leading_colon
    /\ Len(call.func.path.segments) = 1

\* C9: a step whose operation is a MethodCall with a target that is not
\* one plain name fails with the error "Expected ident" under every step
\* kind, it is the last step taken and the error is what the macro emits;
\* a MethodCall with a plain name as its target never fails.
C9_QualifiedMethodIsError ==
    \A i \in DOMAIN applied :
        LET a == applied[i]
        IN  a.operation.op = "MethodCall" =>
            IF PlainTarget(a.operation.call)
            THEN a.result.ok
            ELSE /\ a.result = Err("Expected ident")
                 /\ i = Len(applied)
                 /\ pc = "done"
                 /\ out = Err("Expected ident")

\* x =>@ .m =># .a::b() was parsed, the second step failed
C9_Witness ==
    /\ pc = "done"
    /\ Len(applied) = 2
    /\ applied[1].pipe_type = "Map"
    /\ applied[1].operation.op = "MethodCall"
    /\ applied[1].result.ok
    /\ applied[2].pipe_type = "Apply"
    /\ applied[2].operation.op = "MethodCall"
    /\ applied[2].operation.call.func.path.segments = <<"a", "b">>
    /\ out = Err("Expected ident")

\* the separators of the source text (those inside a group are arguments)
Seps(stream) == {i \in DOMAIN stream : stream[i] = Punct("=>")}

\* a separator with no operation after it: the text ends, or the next
\* separator comes, right after it or after its marker
DanglingSep(stream) ==
    \E i \in Seps(stream) :
        LET j == IF i < Len(stream) /\ stream[i + 1] \in {Punct(m) : m \in Markers}
                 THEN i + 2
                 ELSE i + 1
        IN  j > Len(stream) \/ stream[j] = Punct("=>")

\* C10: an accepted source text has one step per separator, so at least
\* one step when a separator follows the initial expression; a source text
\* with a separator that no operation follows is never accepted: the macro
\* emits a parse error and takes no step.
C10_OneStepPerSeparator ==
    /\ pc = "parsed" =>
          /\ Len(pipe_pairs) = Cardinality(Seps(input))
          /\ (Seps(input) /= {} => pipe_pairs /= <<>>)
    /\ DanglingSep(input) =>
          /\ pc \in {"start", "done"}
          /\ (pc = "done" => ~out.ok /\ applied = <<>>)

\* x => .m =>, with its trailing separator, has been rejected
C10_Witness ==
    /\ pc = "done"
    /\ input = <<Ident("x"), Punct("=>"), Punct("."), Ident("m"), Punct("=>")>>
    /\ ~out.ok
    /\ applied = <<>>

\* the number of positions of the expression e that hold the expression sub
RECURSIVE Occurrences(_, _), OccurrencesInAll(_, _), OccurrencesInStmts(_, _)
Occurrences(sub, e) ==
    IF e = sub
    THEN 1
    ELSE CASE e.tag \in {"Path", "Lit", "None", "Hole"} -> 0
           [] e.tag = "Tuple" -> OccurrencesInAll(sub, e.elems)
           [] e.tag = "Call" ->
                Occurrences(sub, e.func) + OccurrencesInAll(sub, e.args)
           [] e.tag = "MethodCall" ->
                Occurrences(sub, e.receiver) + OccurrencesInAll(sub, e.args)
           [] e.tag = "Closure" -> Occurrences(sub, e.body)
           [] e.tag \in {"Cast", "Try", "Reference"} -> Occurrences(sub, e.expr)
           [] e.tag = "Block" -> OccurrencesInStmts(sub, e.stmts)

OccurrencesInAll(sub, es) ==
    IF es = <<>>
    THEN 0
    ELSE Occurrences(sub, Head(es)) + OccurrencesInAll(sub, Tail(es))

OccurrencesInStmts(sub, stmts) ==
    IF stmts = <<>>
    THEN 0
    ELSE (IF Head(stmts).stmt = "Local"
          THEN Occurrences(sub, Head(stmts).init)
          ELSE Occurrences(sub, Head(stmts).expr))
         + OccurrencesInStmts(sub, Tail(stmts))

\* an expression that no source text and no generated code contains
Hole == [tag |-> "Hole"]

\* one iteration of run()'s loop as a function of the accumulated expression
StepOutput(pipe_type, operation, acc, count) ==
    pipe_applied_fn(apply_pipe(pipe_type, acc, count), operation)

\* the first k iterations taken so far, run again from another expression
RECURSIVE StepsOutput(_, _)
StepsOutput(acc, k) ==
    IF k = 0
    THEN Ok(acc)
    ELSE LET prev == StepsOutput(acc, k - 1)
         IN  IF prev.ok
             THEN StepOutput(applied[k].pipe_type, applied[k].operation,
                             prev.val, applied[k].count)
             ELSE prev

\* the output holds the expression acc once more than the template does,
\* the template being the same output built around the hole, and the
\* template holds the hole once
PlacedOnce(acc, output, template) ==
    /\ template.ok
    /\ Occurrences(Hole, template.val) = 1
    /\ Occurrences(acc, output) = 1 + Occurrences(acc, template.val)

\* C11 as stated: when a step's transform succeeds, the previous
\* accumulated expression occurs exactly once as a sub-expression of the
\* step's output, and the pipeline's initial expression exactly once in
\* the expression the successful steps have built.
C11_OccursExactlyOnce ==
    /\ \A i \in DOMAIN applied :
          applied[i].result.ok =>
             Occurrences(applied[i].acc, applied[i].result.val) = 1
    /\ (applied /= <<>> /\ applied[Len(applied)].result.ok) =>
          Occurrences(applied[1].acc, applied[Len(applied)].result.val) = 1

\* C11, amended: when a step's transform succeeds, the step places the
\* previous accumulated expression at exactly one position of its output,
\* for every step kind and every operation: the output holds it once more
\* than the rest of the output, the operation's own target, arguments and
\* closure and the names the generator adds, already reads the same, so
\* exactly once when nothing else in the output reads the same. The same
\* holds of the expression the pipeline started from in the expression
\* that the successful steps taken so far have built.
C11_PipedValuePlacedOnce ==
    /\ \A i \in DOMAIN applied :
          applied[i].result.ok =>
             PlacedOnce(applied[i].acc, applied[i].result.val,
                        StepOutput(applied[i].pipe_type, applied[i].operation,
                                   Hole, applied[i].count))
    /\ (applied /= <<>> /\ applied[Len(applied)].result.ok) =>
          PlacedOnce(applied[1].acc, applied[Len(applied)].result.val,
                     StepsOutput(Hole, Len(applied)))

\* () => f((), ()) has been compiled to f((), ()): the piped () has taken
\* the place of the first placeholder, the second one reads the same
C11_Witness ==
    /\ pc = "done"
    /\ out = Ok(ExprCall(ExprPath(IdentPath("f")),
                          <<ExprTuple(<<>>), ExprTuple(<<>>)>>))
    /\ Len(applied) = 1
    /\ applied[1].pipe_type = "Basic"
    /\ applied[1].acc = ExprTuple(<<>>)
    /\ Occurrences(applied[1].acc, out.val) = 2

====
